---- MODULE Spec2Model ----
(***************************************************************************)
(* Model of scripts/gpu_matmul.py: main() multiplies two dense matrices,   *)
(* either with one xp.dot call or column block by column block on the GPU, *)
(* and concat() appends each host block to a growing dask array.           *)
(*                                                                         *)
(* Arrays are records [mem, rows, cols, col] where col is the sequence of  *)
(* columns and each column the sequence of its entries.  Entries are exact *)
(* integers: float16/float32 rounding is not modelled.  The three module   *)
(* level numbers of the script (GPU_IND_LIMIT, GPU_COL_LIMIT, SPLIT_SIZE)  *)
(* are state variables that never change; they are drawn in Init from      *)
(* small ranges, so that every statement about "every block width" is      *)
(* checked for each of them.                                               *)
(***************************************************************************)
EXTENDS Integers, Sequences, FiniteSets, TLC

VARIABLES
    GPU_IND_LIMIT,  \* element-count threshold (module constant of the script)
    GPU_COL_LIMIT,  \* column-block width (module constant of the script)
    SPLIT_SIZE,     \* sub-split width used by concat (module constant)
    cpu_only,       \* args.cpu_only
    hdf5,           \* args.hdf5
    pc,             \* position in main()
    A, B,           \* the loaded matrices
    AB,             \* the result: None, a dask array or a backend array
    prev_i, i,      \* column cursor and loop variable
    it,             \* number of values the for loop has taken from range()
    AB_js,          \* backend-side result of the current block
    AB_js_n,        \* host copy of the current block
    ret,            \* value returned by the call in progress, not yet bound
    gpu_live,       \* result arrays currently allocated, oldest first
    trace,          \* the calls and assignments executed so far
    status,         \* exit status of the process, -1 while running
    output          \* the artifact written by the final save

vars == <<GPU_IND_LIMIT, GPU_COL_LIMIT, SPLIT_SIZE, cpu_only, hdf5, pc, A, B,
          AB, prev_i, i, it, AB_js, AB_js_n, ret, gpu_live, trace, status,
          output>>

\* ---------------------------------------------------------------- bounds
MaxM == 2          \* rows of A
MaxK == 2          \* columns of A, rows of B
MaxN == 6          \* columns of B
MaxSeed == 1       \* first entry of a matrix file
MaxIndLimit == 2   \* largest GPU_IND_LIMIT drawn
MaxColLimit == 3   \* largest GPU_COL_LIMIT drawn
MaxSplit == 2      \* largest SPLIT_SIZE drawn
MaxBlockCols == 4  \* widest block handed to the assembler on its own
MaxTotalCols == 6  \* widest array the assembler on its own accumulates

\* ---------------------------------------------------------------- arrays
NoArray == [mem |-> "none", rows |-> 0, cols |-> 0, col |-> <<>>]

None == [kind |-> "None", chunks |-> <<>>]

Min(a, b) == IF a < b THEN a ELSE b

\* xp.load: the array stored in a file.  A file of shape (r, c) holds
\* seed + 1, seed + 2, ... in row-major order.
load(xpmem, seed, r, c) ==
    [mem |-> xpmem, rows |-> r, cols |-> c,
     col |-> [j \in 1..c |-> [k \in 1..r |-> seed + (k - 1) * c + j]]]

RECURSIVE InnerProduct(_, _, _)
InnerProduct(x, y, len) ==
    IF len = 0 THEN 0 ELSE InnerProduct(x, y, len - 1) + x[len] * y[len]

Row(X, r) == [j \in 1..X.cols |-> X.col[j][r]]

\* xp.matmul(X, Y) for 2-D arrays; the result lives where X lives.
matmul(X, Y) ==
    [mem |-> X.mem, rows |-> X.rows, cols |-> Y.cols,
     col |-> [c \in 1..Y.cols |->
                [r \in 1..X.rows |-> InnerProduct(Row(X, r), Y.col[c], X.cols)]]]

\* xp.dot(X, Y): for 2-D arrays the matrix product.
dot(X, Y) == matmul(X, Y)

\* Variant of SliceCols: the end index is taken as inclusive.
SliceCols_Inclusive(X, lo, hi) ==
    LET end == Min(hi + 1, X.cols)
        w   == IF end > lo THEN end - lo ELSE 0
    IN  [mem |-> X.mem, rows |-> X.rows, cols |-> w,
         col |-> [j \in 1..w |-> X.col[lo + j]]]

\* X[:, lo: hi] with numpy's truncation of hi at the array's end.
SliceCols(X, lo, hi) ==
    LET end == Min(hi, X.cols)
        w   == IF end > lo THEN end - lo ELSE 0
    IN  [mem |-> X.mem, rows |-> X.rows, cols |-> w,
         col |-> [j \in 1..w |-> X.col[lo + j]]]

\* X[:, lo: ]
SliceFrom(X, lo) == SliceCols(X, lo, X.cols)

\* xp.asnumpy: a copy of the array in host memory.
asnumpy(X) == [X EXCEPT !.mem = "host"]

\* Variant of PyRange: stop is taken as inclusive.
PyRange_InclusiveStop(start, stop, step) ==
    LET len == IF stop >= start THEN (stop - start + step) \div step ELSE 0
    IN  [t \in 1..len |-> start + (t - 1) * step]

\* range(start, stop, step) for step > 0, as the sequence it yields.
PyRange(start, stop, step) ==
    LET len == IF stop > start THEN (stop - start + step - 1) \div step ELSE 0
    IN  [t \in 1..len |-> start + (t - 1) * step]

\* ------------------------------------------------------------ dask arrays
\* da.from_array: a lazy array of one chunk that refers to x.
from_array(x) == [kind |-> "dask", chunks |-> <<x>>]

RECURSIVE JoinChunks(_)
JoinChunks(l) ==
    IF l = <<>> THEN <<>> ELSE Head(l).chunks \o JoinChunks(Tail(l))

\* da.concatenate(l, axis=1): a new lazy array over the chunks of the
\* arrays of l, in order; no chunk is copied.
concatenate(l) == [kind |-> "dask", chunks |-> JoinChunks(l)]

RECURSIVE SumCols(_)
SumCols(chunks) ==
    IF chunks = <<>> THEN 0 ELSE Head(chunks).cols + SumCols(Tail(chunks))

\* .shape of a dask or backend array (an unset result counts as 0 columns).
Cols(X) == SumCols(X.chunks)
Rows(X) == IF X.chunks = <<>> THEN 0 ELSE X.chunks[1].rows

RECURSIVE JoinCols(_)
JoinCols(chunks) ==
    IF chunks = <<>> THEN <<>> ELSE Head(chunks).col \o JoinCols(Tail(chunks))

\* The logical content of a result: its columns, chunk after chunk.
Logical(X) == JoinCols(X.chunks)

\* Variant of sliced: the index of the comprehension starts at 1.
sliced_OffByOne(blk, split, nsplits) ==
    [ind \in 1..nsplits |->
        from_array(SliceCols(blk, ind * split, ind * split + split))]

\* The slices concat builds in its list comprehension (lines 92-93).
sliced(blk, split, nsplits) ==
    [ind \in 1..nsplits |->
        from_array(SliceCols(blk, (ind - 1) * split, (ind - 1) * split + split))]

\* The remainder slice of concat (lines 98-100).
last_slice(blk, split, nsplits) ==
    from_array(SliceCols(blk, nsplits * split, nsplits * split + split))

\* Variant of concat: the remainder slice of lines 97-101 is left out.
concat_NoRemainder(ab, blk, split) ==
    IF ab = None
    THEN from_array(blk)
    ELSE concatenate(<<ab>> \o sliced(blk, split, blk.cols \div split))

\* concat(AB, AB_js_n, 1) with the module's SPLIT_SIZE passed as split.
concat(ab, blk, split) ==
    IF ab = None
    THEN from_array(blk)
    ELSE LET nsplits == blk.cols \div split
             joined  == concatenate(<<ab>> \o sliced(blk, split, nsplits))
         IN  IF blk.cols % split > 0
             THEN concatenate(<<joined, last_slice(blk, split, nsplits)>>)
             ELSE joined

\* ------------------------------------------------------------------ main
Event(op, lo, hi) == [op |-> op, lo |-> lo, hi |-> hi]

\* Variant of Release: the array the name referred to stays allocated.
Release_Never(live, old) == live

\* Rebinding a name drops the last reference to the array it named.
Release(live, old) ==
    IF old = NoArray \/ live = <<>> THEN live ELSE Tail(live)

\* Variant of LoopRange: the step argument of range() is left out.
LoopRange_UnitStep == PyRange(GPU_COL_LIMIT, B.cols, 1)

\* The values the for loop of line 59 iterates over.
LoopRange == PyRange(GPU_COL_LIMIT, B.cols, GPU_COL_LIMIT)

\* Variant of UseBlocks: >= instead of >.
UseBlocks_AtLeast == ~cpu_only /\ A.rows * B.cols >= GPU_IND_LIMIT

\* The condition of line 54.
UseBlocks == ~cpu_only /\ A.rows * B.cols > GPU_IND_LIMIT

\* Variant of DimsDiffer: > instead of !=.
DimsDiffer_Greater == A.cols > B.rows

\* The condition of line 51.
DimsDiffer == A.cols # B.rows

Init ==
    /\ GPU_IND_LIMIT \in 1..MaxIndLimit
    /\ GPU_COL_LIMIT \in 1..MaxColLimit
    /\ SPLIT_SIZE \in 1..MaxSplit
    /\ cpu_only \in BOOLEAN
    /\ hdf5 \in BOOLEAN
    /\ pc = "load"
    /\ A = NoArray
    /\ B = NoArray
    /\ AB = None
    /\ prev_i = 0
    /\ i = 0
    /\ it = 0
    /\ AB_js = NoArray
    /\ AB_js_n = NoArray
    /\ ret = NoArray
    /\ gpu_live = <<>>
    /\ trace = <<>>
    /\ status = -1
    /\ output = "none"

\* Lines 49-50: A = xp.load(args.m1); B = xp.load(args.m2).
Load ==
    /\ pc = "load"
    /\ \E m \in 1..MaxM, ka \in 1..MaxK, kb \in 1..MaxK, n \in 1..MaxN,
          sa \in 0..MaxSeed, sb \in 0..MaxSeed :
          LET xpmem == IF cpu_only THEN "host" ELSE "gpu"
          IN  /\ A' = load(xpmem, sa, m, ka)
              /\ B' = load(xpmem, sb, kb, n)
    /\ trace' = trace \o <<Event("load", 0, 0), Event("load", 0, 0)>>
    /\ pc' = "check"
    /\ UNCHANGED <<GPU_IND_LIMIT, GPU_COL_LIMIT, SPLIT_SIZE, cpu_only, hdf5,
                   AB, prev_i, i, it, AB_js, AB_js_n, ret, gpu_live, status,
                   output>>

\* Lines 51-53: the shapes do not match; exit(1).
DimMismatch ==
    /\ pc = "check"
    /\ DimsDiffer
    /\ status' = 1
    /\ pc' = "exited"
    /\ UNCHANGED <<GPU_IND_LIMIT, GPU_COL_LIMIT, SPLIT_SIZE, cpu_only, hdf5,
                   A, B, AB, prev_i, i, it, AB_js, AB_js_n, ret, gpu_live,
                   trace, output>>

\* Lines 54-58: the product is large; AB = None, prev_i = 0.
SelectBlocks ==
    /\ pc = "check"
    /\ ~DimsDiffer
    /\ UseBlocks
    /\ AB' = None
    /\ prev_i' = 0
    /\ it' = 0
    /\ pc' = "for"
    /\ UNCHANGED <<GPU_IND_LIMIT, GPU_COL_LIMIT, SPLIT_SIZE, cpu_only, hdf5,
                   A, B, i, AB_js, AB_js_n, ret, gpu_live, trace, status,
                   output>>

\* Line 70: AB = xp.dot(A, B).
Dot ==
    /\ pc = "check"
    /\ ~DimsDiffer
    /\ ~UseBlocks
    /\ AB' = [kind |-> "ndarray", chunks |-> <<dot(A, B)>>]
    /\ gpu_live' = IF cpu_only THEN gpu_live ELSE Append(gpu_live, dot(A, B))
    /\ trace' = Append(trace, Event("dot", 0, B.cols))
    /\ pc' = "save"
    /\ UNCHANGED <<GPU_IND_LIMIT, GPU_COL_LIMIT, SPLIT_SIZE, cpu_only, hdf5,
                   A, B, prev_i, i, it, AB_js, AB_js_n, ret, status, output>>

\* Line 59: the for loop takes the next value of range().
ForNext ==
    /\ pc = "for"
    /\ it < Len(LoopRange)
    /\ i' = LoopRange[it + 1]
    /\ it' = it + 1
    /\ pc' = "matmul"
    /\ UNCHANGED <<GPU_IND_LIMIT, GPU_COL_LIMIT, SPLIT_SIZE, cpu_only, hdf5,
                   A, B, AB, prev_i, AB_js, AB_js_n, ret, gpu_live, trace,
                   status, output>>

\* Line 59: range() is exhausted.
ForDone ==
    /\ pc = "for"
    /\ it = Len(LoopRange)
    /\ pc' = "final_matmul"
    /\ UNCHANGED <<GPU_IND_LIMIT, GPU_COL_LIMIT, SPLIT_SIZE, cpu_only, hdf5,
                   A, B, AB, prev_i, i, it, AB_js, AB_js_n, ret, gpu_live,
                   trace, status, output>>

\* Line 60, right-hand side: xp.matmul(A, B[:, prev_i: i]) allocates and
\* returns the block while AB_js still names the previous one.
Matmul ==
    /\ pc = "matmul"
    /\ ret' = matmul(A, SliceCols(B, prev_i, i))
    /\ gpu_live' = Append(gpu_live, ret')
    /\ trace' = Append(trace, Event("matmul", prev_i, i))
    /\ pc' = "bind"
    /\ UNCHANGED <<GPU_IND_LIMIT, GPU_COL_LIMIT, SPLIT_SIZE, cpu_only, hdf5,
                   A, B, AB, prev_i, i, it, AB_js, AB_js_n, status, output>>

\* Variant of Bind: the block is handed on without the host transfer.
Bind_SkipTransfer ==
    /\ pc = "bind"
    /\ AB_js' = ret
    /\ AB_js_n' = ret
    /\ ret' = NoArray
    /\ gpu_live' = Release(gpu_live, AB_js)
    /\ pc' = "concat"
    /\ UNCHANGED <<GPU_IND_LIMIT, GPU_COL_LIMIT, SPLIT_SIZE, cpu_only, hdf5,
                   A, B, AB, prev_i, i, it, trace, status, output>>

\* Line 60, assignment: AB_js is rebound; the array it named is released.
Bind ==
    /\ pc = "bind"
    /\ AB_js' = ret
    /\ ret' = NoArray
    /\ gpu_live' = Release(gpu_live, AB_js)
    /\ pc' = "asnumpy"
    /\ UNCHANGED <<GPU_IND_LIMIT, GPU_COL_LIMIT, SPLIT_SIZE, cpu_only, hdf5,
                   A, B, AB, prev_i, i, it, AB_js_n, trace, status, output>>

\* Line 61: AB_js_n = xp.asnumpy(AB_js).
Asnumpy ==
    /\ pc = "asnumpy"
    /\ AB_js_n' = asnumpy(AB_js)
    /\ trace' = Append(trace, Event("asnumpy", prev_i, prev_i + AB_js.cols))
    /\ pc' = "concat"
    /\ UNCHANGED <<GPU_IND_LIMIT, GPU_COL_LIMIT, SPLIT_SIZE, cpu_only, hdf5,
                   A, B, AB, prev_i, i, it, AB_js, ret, gpu_live, status,
                   output>>

\* Line 62: AB = concat(AB, AB_js_n, 1).
Concat ==
    /\ pc = "concat"
    /\ AB' = concat(AB, AB_js_n, SPLIT_SIZE)
    /\ trace' = Append(trace, Event("concat", prev_i, prev_i + AB_js_n.cols))
    /\ pc' = "advance"
    /\ UNCHANGED <<GPU_IND_LIMIT, GPU_COL_LIMIT, SPLIT_SIZE, cpu_only, hdf5,
                   A, B, prev_i, i, it, AB_js, AB_js_n, ret, gpu_live, status,
                   output>>

\* Variant of Advance: the cursor is not moved.
Advance_NoCursor ==
    /\ pc = "advance"
    /\ trace' = Append(trace, Event("advance", prev_i, i))
    /\ pc' = "for"
    /\ UNCHANGED <<GPU_IND_LIMIT, GPU_COL_LIMIT, SPLIT_SIZE, cpu_only, hdf5,
                   A, B, AB, prev_i, i, it, AB_js, AB_js_n, ret, gpu_live,
                   status, output>>

\* Line 63: prev_i = i (lines 64-65 only print).
Advance ==
    /\ pc = "advance"
    /\ prev_i' = i
    /\ trace' = Append(trace, Event("advance", prev_i, i))
    /\ pc' = "for"
    /\ UNCHANGED <<GPU_IND_LIMIT, GPU_COL_LIMIT, SPLIT_SIZE, cpu_only, hdf5,
                   A, B, AB, i, it, AB_js, AB_js_n, ret, gpu_live, status,
                   output>>

\* Line 66, right-hand side: xp.matmul(A, B[:, prev_i: ]).
FinalMatmul ==
    /\ pc = "final_matmul"
    /\ ret' = matmul(A, SliceFrom(B, prev_i))
    /\ gpu_live' = Append(gpu_live, ret')
    /\ trace' = Append(trace, Event("matmul", prev_i, B.cols))
    /\ pc' = "final_bind"
    /\ UNCHANGED <<GPU_IND_LIMIT, GPU_COL_LIMIT, SPLIT_SIZE, cpu_only, hdf5,
                   A, B, AB, prev_i, i, it, AB_js, AB_js_n, status, output>>

\* Line 66, assignment.
FinalBind ==
    /\ pc = "final_bind"
    /\ AB_js' = ret
    /\ ret' = NoArray
    /\ gpu_live' = Release(gpu_live, AB_js)
    /\ pc' = "final_asnumpy"
    /\ UNCHANGED <<GPU_IND_LIMIT, GPU_COL_LIMIT, SPLIT_SIZE, cpu_only, hdf5,
                   A, B, AB, prev_i, i, it, AB_js_n, trace, status, output>>

\* Line 67: AB_js_n = xp.asnumpy(AB_js).
FinalAsnumpy ==
    /\ pc = "final_asnumpy"
    /\ AB_js_n' = asnumpy(AB_js)
    /\ trace' = Append(trace, Event("asnumpy", prev_i, prev_i + AB_js.cols))
    /\ pc' = "final_concat"
    /\ UNCHANGED <<GPU_IND_LIMIT, GPU_COL_LIMIT, SPLIT_SIZE, cpu_only, hdf5,
                   A, B, AB, prev_i, i, it, AB_js, ret, gpu_live, status,
                   output>>

\* Line 68: AB = concat(AB, AB_js_n, 1).
FinalConcat ==
    /\ pc = "final_concat"
    /\ AB' = concat(AB, AB_js_n, SPLIT_SIZE)
    /\ trace' = Append(trace, Event("concat", prev_i, prev_i + AB_js_n.cols))
    /\ pc' = "save"
    /\ UNCHANGED <<GPU_IND_LIMIT, GPU_COL_LIMIT, SPLIT_SIZE, cpu_only, hdf5,
                   A, B, prev_i, i, it, AB_js, AB_js_n, ret, gpu_live, status,
                   output>>

\* Lines 76-80: da.to_hdf5(ofile + '.hdf5', '/AB', AB) or xp.save(ofile, AB).
Save ==
    /\ pc = "save"
    /\ output' = IF hdf5 THEN "hdf5" ELSE "npy"
    /\ trace' = Append(trace, Event("save", 0, Cols(AB)))
    /\ status' = 0
    /\ pc' = "done"
    /\ UNCHANGED <<GPU_IND_LIMIT, GPU_COL_LIMIT, SPLIT_SIZE, cpu_only, hdf5,
                   A, B, AB, prev_i, i, it, AB_js, AB_js_n, ret, gpu_live>>

Next ==
    \/ Load
    \/ DimMismatch
    \/ SelectBlocks
    \/ Dot
    \/ ForNext
    \/ ForDone
    \/ Matmul
    \/ Bind
    \/ Asnumpy
    \/ Concat
    \/ Advance
    \/ FinalMatmul
    \/ FinalBind
    \/ FinalAsnumpy
    \/ FinalConcat
    \/ Save

Spec == Init /\ [][Next]_vars

\* ------------------------------------------------- the assembler on its own
\* concat() driven by an arbitrary caller: blocks of any width, zero
\* included, arrive one after the other and each is appended.
InitAssembler ==
    /\ GPU_IND_LIMIT = 1
    /\ GPU_COL_LIMIT = 1
    /\ SPLIT_SIZE \in 1..MaxSplit
    /\ cpu_only = TRUE
    /\ hdf5 = FALSE
    /\ pc = "recv"
    /\ A = NoArray
    /\ B = NoArray
    /\ AB = None
    /\ prev_i = 0
    /\ i = 0
    /\ it = 0
    /\ AB_js = NoArray
    /\ AB_js_n = NoArray
    /\ ret = NoArray
    /\ gpu_live = <<>>
    /\ trace = <<>>
    /\ status = -1
    /\ output = "none"

\* The caller produces the next host block, of the rows of the result so far.
Receive ==
    /\ pc = "recv"
    /\ \E r \in 1..MaxM, w \in 0..MaxBlockCols, seed \in 0..MaxSeed :
          /\ AB = None \/ r = Rows(AB)
          /\ Cols(AB) + w <= MaxTotalCols
          /\ AB_js_n' = load("host", seed, r, w)
    /\ pc' = "append"
    /\ UNCHANGED <<GPU_IND_LIMIT, GPU_COL_LIMIT, SPLIT_SIZE, cpu_only, hdf5,
                   A, B, AB, prev_i, i, it, AB_js, ret, gpu_live, trace,
                   status, output>>

\* AB = concat(AB, AB_js_n, 1).
AssemblerAppend ==
    /\ pc = "append"
    /\ AB' = concat(AB, AB_js_n, SPLIT_SIZE)
    /\ pc' = "recv"
    /\ UNCHANGED <<GPU_IND_LIMIT, GPU_COL_LIMIT, SPLIT_SIZE, cpu_only, hdf5,
                   A, B, prev_i, i, it, AB_js, AB_js_n, ret, gpu_live, trace,
                   status, output>>

NextAssembler ==
    \/ Receive
    \/ AssemblerAppend

SpecAssembler == InitAssembler /\ [][NextAssembler]_vars

\* ------------------------------------------------------------ properties
RECURSIVE CountOp(_, _)
CountOp(tr, op) ==
    IF tr = <<>> THEN 0
    ELSE (IF Head(tr).op = op THEN 1 ELSE 0) + CountOp(Tail(tr), op)

IsMatmul(e) == e.op = "matmul"
IsBlockStep(e) == e.op \in {"matmul", "asnumpy", "concat", "advance"}

\* The column ranges multiplied so far, in the order of the calls.
Ranges == SelectSeq(trace, IsMatmul)

\* The steps of the blocks executed so far.
BlockSteps == SelectSeq(trace, IsBlockStep)

Loaded == A # NoArray
BlockedDone == pc \in {"save", "done"} /\ AB.kind = "dask"
InBlocks ==
    \/ pc \in {"for", "matmul", "bind", "asnumpy", "concat", "advance",
               "final_matmul", "final_bind", "final_asnumpy", "final_concat"}
    \/ BlockedDone

\* The columns lo+1 .. hi of the direct product, as the reference.
DirectCols(lo, hi) == SubSeq(dot(A, B).col, lo + 1, hi)

\* C1: for every compatible A, B and every block width, the array that
\* blocked mode accumulates equals the direct product A.B element for
\* element and has shape (m, n).
C1_BlockedEqualsDirect ==
    BlockedDone =>
        /\ Logical(AB) = dot(A, B).col
        /\ Rows(AB) = A.rows
        /\ Cols(AB) = B.cols

C1_Witness ==
    /\ pc = "done"
    /\ AB.kind = "dask"
    /\ B.cols > 2 * GPU_COL_LIMIT
    /\ B.cols % GPU_COL_LIMIT # 0
    /\ A.rows > 1
    /\ A.cols > 1

\* C2: when A.cols # B.rows the run ends with a failure status right after
\* loading: no multiply, no host transfer, no append and no save is
\* performed and no output is written, whatever cpu_only and hdf5 are.
C2_MismatchAborts ==
    (Loaded /\ A.cols # B.rows) =>
        /\ pc \in {"check", "exited"}
        /\ pc = "exited" => status = 1
        /\ status # 0
        /\ \A t \in 1..Len(trace) : trace[t].op = "load"
        /\ AB = None
        /\ AB_js = NoArray
        /\ AB_js_n = NoArray
        /\ gpu_live = <<>>
        /\ output = "none"

C2_Witness ==
    /\ pc = "exited"
    /\ status = 1
    /\ A.cols # B.rows
    /\ hdf5
    /\ ~cpu_only

\* C3: direct mode (exactly one full multiply and no per-block multiply,
\* transfer or append) is chosen iff cpu_only holds or m*n <= threshold;
\* blocked mode is chosen otherwise and never runs the full multiply.
C3_ModeSelection ==
    LET direct == cpu_only \/ A.rows * B.cols <= GPU_IND_LIMIT
    IN  /\ CountOp(trace, "dot") > 0 => direct
        /\ CountOp(trace, "matmul") > 0 => ~direct
        /\ pc \in {"save", "done"} =>
              IF direct
              THEN /\ CountOp(trace, "dot") = 1
                   /\ CountOp(trace, "matmul") = 0
                   /\ CountOp(trace, "asnumpy") = 0
                   /\ CountOp(trace, "concat") = 0
                   /\ AB.kind = "ndarray"
              ELSE /\ CountOp(trace, "dot") = 0
                   /\ CountOp(trace, "matmul") >= 1
                   /\ AB.kind = "dask"

C3_Witness ==
    /\ pc = "done"
    /\ ~cpu_only
    /\ A.rows * B.cols = GPU_IND_LIMIT
    /\ CountOp(trace, "dot") = 1

\* C4: in blocked mode the ranges multiplied are half-open, ascending,
\* contiguous from 0 to n (so disjoint and covering [0, n) exactly), each
\* of width <= W; all but the last have width W and the last has width
\* n mod W when W does not divide n and W when it does.
C4_RangesPartition ==
    LET R == Ranges
        W == GPU_COL_LIMIT
        n == B.cols
    IN  /\ \A t \in 1..Len(R) :
              /\ R[t].lo < R[t].hi
              /\ R[t].hi - R[t].lo <= W
              /\ R[t].hi <= n
              /\ R[t].lo = (t - 1) * W
              /\ R[t].hi < n => R[t].hi - R[t].lo = W
        /\ BlockedDone =>
              /\ Len(R) >= 1
              /\ R[Len(R)].hi = n
              /\ R[Len(R)].hi - R[Len(R)].lo = (IF n % W = 0 THEN W ELSE n % W)
              /\ \A t \in 1..(Len(R) - 1) :
                    /\ R[t].hi = R[t + 1].lo
                    /\ R[t].hi - R[t].lo = W

C4_Witness ==
    /\ BlockedDone
    /\ Len(Ranges) >= 3
    /\ B.cols % GPU_COL_LIMIT # 0
    /\ GPU_COL_LIMIT > 1

\* C5 as stated: when n is an exact multiple of the block width, the final
\* flush appends zero columns and leaves the accumulated array unchanged.
C5_ZeroWidthFlush ==
    [][(pc = "final_concat" /\ B.cols % GPU_COL_LIMIT = 0) =>
          (AB_js_n.cols = 0 /\ AB' = AB)]_vars

\* C5 as amended: when n is an exact multiple of the block width W, the
\* final flush covers the last full range [n - W, n): it appends exactly W
\* columns, the last W columns of A.B, to the columns [0, n - W).
C5_FullWidthFlush ==
    [][(pc = "final_concat" /\ B.cols % GPU_COL_LIMIT = 0) =>
          /\ AB_js_n.cols = GPU_COL_LIMIT
          /\ prev_i = B.cols - GPU_COL_LIMIT
          /\ Cols(AB') = Cols(AB) + GPU_COL_LIMIT
          /\ Logical(AB') = Logical(AB) \o DirectCols(prev_i, B.cols)]_vars

C5_Witness ==
    /\ pc = "save"
    /\ AB.kind = "dask"
    /\ B.cols % GPU_COL_LIMIT = 0
    /\ B.cols > GPU_COL_LIMIT
    /\ AB_js_n.cols = GPU_COL_LIMIT
    /\ Cols(AB) = B.cols

\* C6: for a set accumulated array, a block of any width w >= 0 and any
\* sub-split width s, the sub-split path of concat yields the same logical
\* array as concatenating the accumulated array with the whole block.
C6_SplitIndependent ==
    [][(pc = "append" /\ AB # None) =>
          Logical(AB') = Logical(concatenate(<<AB, from_array(AB_js_n)>>))]_vars

C6_Witness ==
    /\ pc = "recv"
    /\ Len(AB.chunks) >= 3
    /\ AB_js_n.cols > SPLIT_SIZE
    /\ AB_js_n.cols % SPLIT_SIZE # 0
    /\ AB_js_n.rows > 1

\* C7: every call of concat returns an array with exactly newBlock.cols
\* more columns than before (an unset array counting as 0 columns), whose
\* row count is that of the block and, when set before, unchanged.
C7_AppendShape ==
    [][pc = "append" =>
          /\ Cols(AB') = Cols(AB) + AB_js_n.cols
          /\ Len(Logical(AB')) = Len(Logical(AB)) + AB_js_n.cols
          /\ Rows(AB') = AB_js_n.rows
          /\ AB # None => Rows(AB') = Rows(AB)]_vars

C7_Witness ==
    /\ pc = "recv"
    /\ Len(AB.chunks) >= 2
    /\ AB_js_n.cols > 0
    /\ Cols(AB) > AB_js_n.cols

\* C8: when the block for [prev_i, .) is handed to concat, the accumulated
\* array holds exactly the columns [0, prev_i) of A.B (unset when prev_i is
\* 0) and the block holds the columns that follow; the cursor never
\* decreases.
C8_LeftToRight ==
    /\ [](pc \in {"concat", "final_concat"} =>
            /\ (prev_i = 0) <=> (AB = None)
            /\ Logical(AB) = DirectCols(0, prev_i)
            /\ AB_js_n.cols > 0
            /\ AB_js_n.col = DirectCols(prev_i, prev_i + AB_js_n.cols))
    /\ [][prev_i' >= prev_i]_vars

C8_Witness ==
    /\ pc = "final_concat"
    /\ prev_i >= 2 * GPU_COL_LIMIT
    /\ Len(AB.chunks) >= 2

\* C9: in blocked mode the steps of each block run in the order multiply,
\* transfer to host, append, advance cursor (the final block has no
\* advance), so the transfer and the append of a block lie between its
\* multiply and the next one.
C9_StepOrder ==
    LET S == BlockSteps
    IN  /\ \A t \in 1..Len(S) :
              /\ S[t].op = (CASE t % 4 = 1 -> "matmul"
                              [] t % 4 = 2 -> "asnumpy"
                              [] t % 4 = 3 -> "concat"
                              [] OTHER     -> "advance")
              /\ t % 4 \in {2, 3} => (S[t].lo = S[t - 1].lo /\ S[t].hi = S[t - 1].hi)
        /\ BlockedDone => Len(S) % 4 = 3

C9_Witness ==
    /\ pc = "done"
    /\ AB.kind = "dask"
    /\ CountOp(trace, "matmul") >= 3
    /\ CountOp(trace, "advance") = CountOp(trace, "matmul") - 1

\* C10 as stated: in blocked mode at most one result block is held in
\* device memory at any point.
C10_OneDeviceBlock ==
    InBlocks => Len(gpu_live) <= 1

\* C10 as amended: in blocked mode at most two result blocks are held in
\* device memory, each of m rows and at most W columns; two are held only
\* between the return of a multiply and the rebinding of AB_js, when the
\* previous block is still referenced.
C10_TwoDeviceBlocks ==
    InBlocks =>
        /\ Len(gpu_live) <= 2
        /\ Len(gpu_live) = 2 => pc \in {"bind", "final_bind"}
        /\ \A t \in 1..Len(gpu_live) :
              /\ gpu_live[t].rows = A.rows
              /\ gpu_live[t].cols <= GPU_COL_LIMIT
              /\ gpu_live[t].mem = "gpu"

C10_Witness ==
    /\ pc = "bind"
    /\ Len(gpu_live) = 2
    /\ gpu_live[1] = AB_js
    /\ gpu_live[2] = ret

====
